---- MODULE Spec2Model ----
(***************************************************************************)
(* Model of two pieces of IBTK:                                            *)
(*   - SideSynchCopyFillPattern::calculateOverlap, the box-algebra routine *)
(*     that selects the upper face layer of a destination patch, and       *)
(*   - SCPoissonPETScLevelSolver, the level solver that owns the DOF index *)
(*     field, the PETSc vectors and the two refine schedules.              *)
(* Axes are numbered 1..NDIM here (0..NDIM-1 in the C++ code).             *)
(***************************************************************************)
EXTENDS Integers, Sequences, FiniteSets, TLC

\* ------------------------------------------------------------------------
\* Bounds of the model
\* ------------------------------------------------------------------------
NDIM == 2
MaxCoord == 1
MaxGhost == 1
MaxShift == 1

Axes == 1..NDIM

Max2(a, b) == IF a >= b THEN a ELSE b
Min2(a, b) == IF a <= b THEN a ELSE b

\* ------------------------------------------------------------------------
\* Box<NDIM>: inclusive lower/upper cell indices per axis
\* ------------------------------------------------------------------------
MkBox(lo, hi) == [lo |-> lo, hi |-> hi]

\* a default-constructed Box is empty
EmptyBox == MkBox([d \in Axes |-> 1], [d \in Axes |-> 0])

BoxEmpty(b) == \E d \in Axes : b.lo[d] > b.hi[d]

\* Box::operator*
BoxIntersect(a, b) ==
    MkBox([d \in Axes |-> Max2(a.lo[d], b.lo[d])],
          [d \in Axes |-> Min2(a.hi[d], b.hi[d])])

\* Box::grow by a uniform ghost width
BoxGrow(b, g) ==
    IF BoxEmpty(b) THEN b
    ELSE MkBox([d \in Axes |-> b.lo[d] - g], [d \in Axes |-> b.hi[d] + g])

\* Box::shift
BoxShift(b, off) ==
    IF BoxEmpty(b) THEN b
    ELSE MkBox([d \in Axes |-> b.lo[d] + off[d]], [d \in Axes |-> b.hi[d] + off[d]])

ZeroOffset == [d \in Axes |-> 0]

NegOffset(off) == [d \in Axes |-> 0 - off[d]]

\* SideGeometry::toSideBox: the faces normal to axis of the cells of b
toSideBox(b, axis) ==
    IF BoxEmpty(b) THEN EmptyBox
    ELSE MkBox(b.lo, [b.hi EXCEPT ![axis] = b.hi[axis] + 1])

\* the index points of a box
BoxPoints(b) ==
    IF BoxEmpty(b) THEN {}
    ELSE { <<i, j>> : i \in b.lo[1]..b.hi[1], j \in b.lo[2]..b.hi[2] }

BoxContains(outer, inner) == BoxEmpty(inner) \/ BoxIntersect(outer, inner) = inner

RECURSIVE ListPoints(_)
ListPoints(l) == IF l = <<>> THEN {} ELSE BoxPoints(Head(l)) \cup ListPoints(Tail(l))

\* ------------------------------------------------------------------------
\* BoxList<NDIM> operations used by the generic side-centred overlap
\* ------------------------------------------------------------------------

\* BoxList::burstBoxes: the pieces of bursty that lie outside solid, cut
\* axis by axis; solid is contained in bursty
RECURSIVE burstBoxes(_, _, _)
burstBoxes(cutbox, solid, d) ==
    IF d > NDIM THEN <<>>
    ELSE LET below == IF cutbox.lo[d] < solid.lo[d]
                      THEN << MkBox(cutbox.lo, [cutbox.hi EXCEPT ![d] = solid.lo[d] - 1]) >>
                      ELSE <<>>
             above == IF cutbox.hi[d] > solid.hi[d]
                      THEN << MkBox([cutbox.lo EXCEPT ![d] = solid.hi[d] + 1], cutbox.hi) >>
                      ELSE <<>>
             rest  == MkBox([cutbox.lo EXCEPT ![d] = Max2(cutbox.lo[d], solid.lo[d])],
                            [cutbox.hi EXCEPT ![d] = Min2(cutbox.hi[d], solid.hi[d])])
         IN below \o above \o burstBoxes(rest, solid, d + 1)

\* BoxList::removeIntersections(box, takeaway): box minus takeaway
removeIntersections(box, takeaway) ==
    LET both == BoxIntersect(box, takeaway)
    IN IF BoxEmpty(both) THEN << box >> ELSE burstBoxes(box, both, 1)

\* ------------------------------------------------------------------------
\* SideGeometry<NDIM> and SideOverlap<NDIM>
\* ------------------------------------------------------------------------
SideGeometry(box, ghosts) == [box |-> box, ghosts |-> ghosts]

\* SideOverlap constructor; from_baseline tells the object returned by the
\* generic routine from one built by the fill pattern
SideOverlap(dst_boxes, src_offset, from_baseline) ==
    [boxes |-> dst_boxes, offset |-> src_offset, from_baseline |-> from_baseline]

isOverlapEmpty(ov) == \A d \in Axes : ov.boxes[d] = <<>>

getDestinationBoxList(ov, axis) == ov.boxes[axis]

\* SideGeometry::calculateOverlap (doOverlap), the generic side-centred
\* overlap of the destination ghost box with the masked, shifted source
baselineOverlap(dst_geometry, src_geometry, src_mask, overwrite_interior, src_offset) ==
    LET src_box   == BoxIntersect(BoxGrow(src_geometry.box, src_geometry.ghosts), src_mask)
        src_shift == BoxShift(src_box, src_offset)
        dst_ghost == BoxGrow(dst_geometry.box, dst_geometry.ghosts)
        together(d) == BoxIntersect(toSideBox(dst_ghost, d), toSideBox(src_shift, d))
        list(d) == IF BoxEmpty(together(d)) THEN <<>>
                   ELSE IF overwrite_interior THEN << together(d) >>
                   ELSE removeIntersections(together(d), toSideBox(dst_geometry.box, d))
    IN SideOverlap([d \in Axes |-> list(d)], src_offset, TRUE)

\* ------------------------------------------------------------------------
\* SideSynchCopyFillPattern::calculateOverlap
\* ------------------------------------------------------------------------

\* variant: the inner loop tests d == axis instead of d != axis
skip_same_axis(axis, src_offset) == \E d \in Axes : d = axis /\ src_offset[d] # 0

\* the inner loop over d: some component of the offset off the axis is nonzero
skip(axis, src_offset) == \E d \in Axes : d # axis /\ src_offset[d] # 0

\* variant: upper(axis) = lower(axis), the lower face layer
stencil_box_lower(dst_box, axis) ==
    LET side == toSideBox(dst_box, axis)
    IN MkBox(side.lo, [side.hi EXCEPT ![axis] = side.lo[axis]])

\* variant: the stencil is taken from the ghost box of the destination
stencil_box_ghost(dst_box, axis) ==
    LET side == toSideBox(BoxGrow(dst_box, 1), axis)
    IN MkBox([side.lo EXCEPT ![axis] = side.hi[axis]], side.hi)

\* toSideBox(dst_box, axis) with lower(axis) = upper(axis)
stencil_box(dst_box, axis) ==
    LET side == toSideBox(dst_box, axis)
    IN MkBox([side.lo EXCEPT ![axis] = side.hi[axis]], side.hi)

\* variant: every intersection is appended, empty or not
RECURSIVE IntersectList_keepEmpty(_, _)
IntersectList_keepEmpty(stencil, boxes) ==
    IF boxes = <<>> THEN <<>>
    ELSE << BoxIntersect(stencil, Head(boxes)) >> \o IntersectList_keepEmpty(stencil, Tail(boxes))

\* variant: the stencil box is appended in place of the intersection
RECURSIVE IntersectList_appendStencil(_, _)
IntersectList_appendStencil(stencil, boxes) ==
    IF boxes = <<>> THEN <<>>
    ELSE (IF BoxEmpty(BoxIntersect(stencil, Head(boxes))) THEN <<>> ELSE << stencil >>)
         \o IntersectList_appendStencil(stencil, Tail(boxes))

\* the loop over the baseline boxes: keep the non-empty intersections
RECURSIVE IntersectList(_, _)
IntersectList(stencil, boxes) ==
    IF boxes = <<>> THEN <<>>
    ELSE LET overlap_box == BoxIntersect(stencil, Head(boxes))
         IN (IF BoxEmpty(overlap_box) THEN <<>> ELSE << overlap_box >>)
            \o IntersectList(stencil, Tail(boxes))

\* the part of calculateOverlap that follows the call of the generic routine:
\* the early return of an empty baseline, then the loop over the axes
stencilOverlap(baseline, dst_geometry, src_offset) ==
    LET dst_boxes == [axis \in Axes |->
            IF skip(axis, src_offset) THEN <<>>
            ELSE IntersectList(stencil_box(dst_geometry.box, axis),
                               getDestinationBoxList(baseline, axis))]
    IN IF isOverlapEmpty(baseline) THEN baseline
       ELSE SideOverlap(dst_boxes, src_offset, FALSE)

calculateOverlap(dst_geometry, src_geometry, src_mask, overwrite_interior, src_offset) ==
    stencilOverlap(baselineOverlap(dst_geometry, src_geometry, src_mask, overwrite_interior, src_offset),
                   dst_geometry, src_offset)

\* ------------------------------------------------------------------------
\* Patch level: an ordered list of patches, each owned by one process
\* ------------------------------------------------------------------------
NumProcs == 2
MaxLayout == 3

Procs == 1..NumProcs

Patch(lo, hi, proc) == [box |-> MkBox(lo, hi), proc |-> proc]

\* the patch levels considered: two patches side by side on two processes,
\* three patches in a row with the middle one on the other process, two
\* patches stacked on one process, one patch
Layouts ==
    << << Patch(<<0, 0>>, <<0, 0>>, 1), Patch(<<1, 0>>, <<1, 0>>, 2) >>,
       << Patch(<<0, 0>>, <<0, 0>>, 1), Patch(<<1, 0>>, <<1, 0>>, 2), Patch(<<2, 0>>, <<2, 0>>, 1) >>,
       << Patch(<<0, 0>>, <<0, 0>>, 1), Patch(<<0, 1>>, <<0, 1>>, 1) >>,
       << Patch(<<0, 0>>, <<1, 0>>, 2) >> >>

Levels == { Layouts[i] : i \in 1..Min2(MaxLayout, Len(Layouts)) }

PatchIds(lev) == 1..Len(lev)

\* index points of a box in storage order (first axis fastest)
PointSeq(b) ==
    IF BoxEmpty(b) THEN <<>>
    ELSE LET w == b.hi[1] - b.lo[1] + 1
             h == b.hi[2] - b.lo[2] + 1
         IN [k \in 1..(w * h) |-> << b.lo[1] + ((k - 1) % w), b.lo[2] + ((k - 1) \div w) >>]

\* a slot <<patch, axis, point>> names one stored side value of a patch
InteriorSlots(lev) ==
    UNION { { <<p, a, pt>> : pt \in BoxPoints(toSideBox(lev[p].box, a)) } :
            p \in PatchIds(lev), a \in Axes }

\* SideData storage of a patch: the side boxes of its ghost box
AllSlots(lev, g) ==
    UNION { { <<p, a, pt>> : pt \in BoxPoints(toSideBox(BoxGrow(lev[p].box, g), a)) } :
            p \in PatchIds(lev), a \in Axes }

\* the interior slots of the level in the order the patches are visited
RECURSIVE SlotSeqFrom(_, _, _)
SlotSeqFrom(lev, p, a) ==
    IF p > Len(lev) THEN <<>>
    ELSE LET pts == PointSeq(toSideBox(lev[p].box, a))
             here == [k \in 1..Len(pts) |-> <<p, a, pts[k]>>]
         IN here \o (IF a < NDIM THEN SlotSeqFrom(lev, p, a + 1) ELSE SlotSeqFrom(lev, p + 1, 1))

SlotSeq(lev) == SlotSeqFrom(lev, 1, 1)

\* ------------------------------------------------------------------------
\* Patch data indices and values
\* ------------------------------------------------------------------------
\* a null pointer or handle
NULL == [null |-> TRUE]

\* ghost cell width of the DOF index variable
SIDEG == 1

\* patch data indices of the solution x, the right-hand side b and the DOF
\* index variable registered by the constructor
x_idx == 0
b_idx == 1
d_dof_index_idx == 2

Values == {0, 1}

\* entries of the DOF index field
UNASSIGNED == [owned |-> FALSE, index |-> 0 - 1]
OwnedDOF(n) == [owned |-> TRUE, index |-> n]
DuplicateOf(n) == [owned |-> FALSE, index |-> n]

\* ------------------------------------------------------------------------
\* Synchronization schedules (RefineSchedule built with a fill pattern)
\* ------------------------------------------------------------------------

\* the patches q whose data the fill pattern copies into slot s of patch p
SynchSources(lev, g, s) ==
    { q \in PatchIds(lev) \ {s[1]} :
        s[3] \in ListPoints(getDestinationBoxList(
                    calculateOverlap(SideGeometry(lev[s[1]].box, g), SideGeometry(lev[q].box, g),
                                     lev[q].box, TRUE, ZeroOffset), s[2])) }

\* the same for the generic fill of ghost values
GhostSources(lev, g, s) ==
    { q \in PatchIds(lev) \ {s[1]} :
        s[3] \in ListPoints(getDestinationBoxList(
                    baselineOverlap(SideGeometry(lev[s[1]].box, g), SideGeometry(lev[q].box, g),
                                    lev[q].box, FALSE, ZeroOffset), s[2])) }

MinOf(S) == CHOOSE m \in S : \A n \in S : m <= n

\* PETScVecUtilities::constructDataSynchSchedule: planning only; the plan
\* names, for every position the pattern overwrites, the position read
constructDataSynchSchedule(idx, lev, g, serial) ==
    [pattern |-> "SIDE_SYNCH_COPY_FILL_PATTERN", idx |-> idx, serial |-> serial,
     plan |-> [s \in { t \in AllSlots(lev, g) : SynchSources(lev, g, t) # {} } |->
                  << MinOf(SynchSources(lev, g, s)), s[2], s[3] >>]]

\* PETScVecUtilities::constructGhostFillSchedule: planning only
constructGhostFillSchedule(idx, lev, g, serial) ==
    [pattern |-> "GHOST_FILL", idx |-> idx, serial |-> serial,
     plan |-> [s \in { t \in AllSlots(lev, g) : GhostSources(lev, g, t) # {} } |->
                  << MinOf(GhostSources(lev, g, s)), s[2], s[3] >>]]

\* RefineSchedule::fillData: every position of the plan receives the value
\* of the position it reads
fillData(sched, data) ==
    [s \in DOMAIN data |-> IF s \in DOMAIN sched.plan THEN data[sched.plan[s]] ELSE data[s]]

\* ------------------------------------------------------------------------
\* DOF partitioner (PETScVecUtilities::constructPatchLevelDOFIndices)
\* ------------------------------------------------------------------------

\* a position is a duplicate when the synchronization pattern overwrites it
IsDuplicate(lev, s) == SynchSources(lev, SIDEG, s) # {}

OwnerSlot(lev, s) == << MinOf(SynchSources(lev, SIDEG, s)), s[2], s[3] >>

\* the positions owned by process r, in local numbering order
OwnedSeq(lev, r) ==
    LET keep(s) == lev[s[1]].proc = r /\ ~IsDuplicate(lev, s)
    IN SelectSeq(SlotSeq(lev), keep)

RECURSIVE SumUpTo(_, _)
SumUpTo(f, n) == IF n = 0 THEN 0 ELSE f[n] + SumUpTo(f, n - 1)

PositionIn(seq, x) == CHOOSE k \in 1..Len(seq) : seq[k] = x

\* local sequential numbering per process, shifted by the prefix sum of the
\* per-process counts; duplicates refer to the index of their owner
constructPatchLevelDOFIndices(lev) ==
    LET counts == [r \in Procs |-> Len(OwnedSeq(lev, r))]
        indexOf(s) == LET r == lev[s[1]].proc
                      IN SumUpTo(counts, r - 1) + PositionIn(OwnedSeq(lev, r), s) - 1
    IN [num_dofs_per_proc |-> counts,
        dof_index |-> [s \in InteriorSlots(lev) |->
                          IF IsDuplicate(lev, s) THEN DuplicateOf(indexOf(OwnerSlot(lev, s)))
                          ELSE OwnedDOF(indexOf(s))]]

\* ------------------------------------------------------------------------
\* Distributed vectors and the copies between patch data and vectors
\* ------------------------------------------------------------------------

\* VecCreateMPI with the local size of every rank; the global size is
\* determined as the sum
VecCreateMPI(local_sizes) ==
    [local |-> local_sizes,
     vals  |-> [i \in 0..(SumUpTo(local_sizes, NumProcs) - 1) |-> 0]]

\* PETScVecUtilities::copyToPatchLevelVec: owned values go to their global
\* index, duplicates are skipped
copyToPatchLevelVec(vec, data, dof_index) ==
    [vec EXCEPT !.vals =
        [i \in DOMAIN vec.vals |->
            IF \E s \in DOMAIN dof_index : dof_index[s].owned /\ dof_index[s].index = i
            THEN data[CHOOSE s \in DOMAIN dof_index : dof_index[s].owned /\ dof_index[s].index = i]
            ELSE vec.vals[i]]]

\* PETScVecUtilities::copyFromPatchLevelVec: vector entries go to the owned
\* positions of the data with index idx, then the data synch schedule is
\* executed, then the ghost fill schedule, each on the data it was built for
copyFromPatchLevelVec(vec, pdata, idx, dof_index, data_synch_sched, ghost_fill_sched) ==
    LET written == [s \in DOMAIN pdata[idx] |->
                       IF s \in DOMAIN dof_index /\ dof_index[s].owned
                          /\ dof_index[s].index \in DOMAIN vec.vals
                       THEN vec.vals[dof_index[s].index]
                       ELSE pdata[idx][s]]
        pd1 == [pdata EXCEPT ![idx] = written]
        pd2 == [pd1 EXCEPT ![data_synch_sched.idx] = fillData(data_synch_sched, pd1[data_synch_sched.idx])]
    IN [pd2 EXCEPT ![ghost_fill_sched.idx] = fillData(ghost_fill_sched, pd2[ghost_fill_sched.idx])]

\* ------------------------------------------------------------------------
\* Boundary adjustment of the right-hand side
\* ------------------------------------------------------------------------

\* the physical domain is the bounding box of the level
DomainBox(lev) ==
    MkBox([d \in Axes |-> MinOf({ lev[p].box.lo[d] : p \in PatchIds(lev) })],
          [d \in Axes |-> 0 - MinOf({ 0 - lev[p].box.hi[d] : p \in PatchIds(lev) })])

intersectsPhysicalBoundary(lev, p) ==
    \E d \in Axes : \/ lev[p].box.lo[d] = DomainBox(lev).lo[d]
                     \/ lev[p].box.hi[d] = DomainBox(lev).hi[d]

\* a side position of patch s[1] on the boundary of the physical domain
OnPhysicalBoundary(lev, s) ==
    /\ s \in InteriorSlots(lev)
    /\ \/ s[3][s[2]] = DomainBox(lev).lo[s[2]]
       \/ s[3][s[2]] = DomainBox(lev).hi[s[2]] + 1

\* PoissonUtilities::adjustSCBoundaryRhsEntries on patch p: the boundary
\* entries receive the boundary-condition contribution
adjustSCBoundaryRhsEntries(lev, p, data, contribution) ==
    [s \in DOMAIN data |->
        IF s[1] = p /\ OnPhysicalBoundary(lev, s) THEN data[s] + contribution ELSE data[s]]

\* ------------------------------------------------------------------------
\* SCPoissonPETScLevelSolver: operations on the solver state S, a record of
\* the solver's members, the variable database and the patch level data
\* ------------------------------------------------------------------------
MaxInits == 2

\* a fatal precondition violation stops the program
Rejected(S) == [S EXCEPT !.life = "rejected"]

\* use of a NULL schedule or vector, or of unallocated patch data
Crashed(S) == [S EXCEPT !.life = "crashed"]

\* PatchDescriptor: the first free patch data index
FreshIndex(registered) == MinOf({ i \in 0..(Cardinality(registered)) : i \notin registered })

\* variant: the local size of rank 1 is used on every rank
VecLocalSize_first(num_dofs_per_proc, mpi_rank) == num_dofs_per_proc[1]

\* the local size passed to VecCreateMPI: d_num_dofs_per_proc[mpi_rank]
VecLocalSize(num_dofs_per_proc, mpi_rank) == num_dofs_per_proc[mpi_rank]

\* PETScMatUtilities::constructPatchLevelSCLaplaceOp: an opaque operator
\* with the row distribution of the vectors
constructPatchLevelSCLaplaceOp(num_dofs_per_proc) == [rows |-> num_dofs_per_proc]

\* the order of the steps since the last initialization began: each step
\* is entered in hist.events when it first completes
Log(S, e) ==
    IF \E i \in 1..Len(S.hist.events) : S.hist.events[i] = e THEN S
    ELSE [S EXCEPT !.hist.events = Append(@, e)]

ResetLog(S) == [S EXCEPT !.hist.events = << >>]

\* variant: the DOF index data is allocated whether it is allocated or not
AllocateDOFIndexData_always(S) ==
    Log([S EXCEPT !.allocated = @ \cup {d_dof_index_idx},
                  !.dof_index_data = [s \in InteriorSlots(S.level) |-> UNASSIGNED],
                  !.hist.dof_allocs = @ + 1],
        "allocate_dof_index")

\* "if (!level->checkAllocated(d_dof_index_idx)) level->allocatePatchData(d_dof_index_idx)"
AllocateDOFIndexData(S) ==
    Log(IF d_dof_index_idx \notin S.allocated
        THEN [S EXCEPT !.allocated = @ \cup {d_dof_index_idx},
                       !.dof_index_data = [s \in InteriorSlots(S.level) |-> UNASSIGNED],
                       !.hist.dof_allocs = @ + 1]
        ELSE S,
        "allocate_dof_index")

\* PETScVecUtilities::constructPatchLevelDOFIndices(d_num_dofs_per_proc, d_dof_index_idx, level)
ConstructDOFIndices(S) ==
    LET dofs == constructPatchLevelDOFIndices(S.level)
    IN Log([S EXCEPT !.d_num_dofs_per_proc = dofs.num_dofs_per_proc,
                     !.dof_index_data = dofs.dof_index],
           "construct_dof_indices")

\* the two VecCreateMPI calls
CreateVecs(S) ==
    LET sizes == [r \in Procs |-> VecLocalSize(S.d_num_dofs_per_proc, r)]
    IN Log(Log([S EXCEPT !.d_petsc_x = VecCreateMPI(sizes),
                         !.d_petsc_b = VecCreateMPI(sizes)],
               "create_petsc_x"),
           "create_petsc_b")

\* PETScMatUtilities::constructPatchLevelSCLaplaceOp(d_petsc_mat, ...)
ConstructMat(S) ==
    Log([S EXCEPT !.d_petsc_mat = constructPatchLevelSCLaplaceOp(S.d_num_dofs_per_proc)],
        "construct_mat")

\* d_data_synch_sched = PETScVecUtilities::constructDataSynchSchedule(x_idx, level)
ConstructDataSynchSched(S) ==
    Log([S EXCEPT !.d_data_synch_sched =
                      constructDataSynchSchedule(x_idx, S.level, S.gcw, S.hist.sched_builds + 1),
                  !.hist.sched_builds = @ + 1],
        "construct_data_synch_sched")

\* d_ghost_fill_sched = PETScVecUtilities::constructGhostFillSchedule(x_idx, level)
ConstructGhostFillSched(S) ==
    Log([S EXCEPT !.d_ghost_fill_sched =
                      constructGhostFillSchedule(x_idx, S.level, S.gcw, S.hist.sched_builds + 1),
                  !.hist.sched_builds = @ + 1],
        "construct_ghost_fill_sched")

\* variant: the ghost fill schedule is not constructed
initializeSolverStateSpecialized_noGhostSched(S) ==
    ConstructDataSynchSched(ConstructMat(CreateVecs(ConstructDOFIndices(
        AllocateDOFIndexData(ResetLog(S))))))

\* variant: the schedules are constructed first, the DOF indices last
initializeSolverStateSpecialized_schedFirst(S) ==
    ConstructMat(CreateVecs(ConstructDOFIndices(AllocateDOFIndexData(
        ConstructGhostFillSched(ConstructDataSynchSched(ResetLog(S)))))))

\* variant: the ghost fill schedule is executed once it is constructed
initializeSolverStateSpecialized_fill(S) ==
    LET s1 == ConstructGhostFillSched(ConstructDataSynchSched(ConstructMat(CreateVecs(
                  ConstructDOFIndices(AllocateDOFIndexData(ResetLog(S)))))))
    IN Log([s1 EXCEPT !.patch_data[x_idx] = fillData(s1.d_ghost_fill_sched, @)],
           "execute_ghost_fill_sched")

initializeSolverStateSpecialized(S) ==
    ConstructGhostFillSched(ConstructDataSynchSched(ConstructMat(CreateVecs(
        ConstructDOFIndices(AllocateDOFIndexData(ResetLog(S)))))))

deallocateSolverStateSpecialized(S) ==
    Log(IF d_dof_index_idx \in S.allocated
        THEN [S EXCEPT !.allocated = @ \ {d_dof_index_idx},
                       !.dof_index_data = << >>,
                       !.hist.dof_deallocs = @ + 1]
        ELSE S,
        "deallocate_dof_index")

\* variant: initialize is entered whatever the state is
initializeSolverState_reenter(S) ==
    [initializeSolverStateSpecialized(S) EXCEPT
         !.d_petsc_ksp = [ksp |-> "KSP"],
         !.d_is_initialized = TRUE,
         !.hist.inits = @ + 1]

\* PETScLevelSolver::initializeSolverState: valid only from Uninitialized
initializeSolverState(S) ==
    IF S.d_is_initialized THEN Rejected(S)
    ELSE [initializeSolverStateSpecialized(S) EXCEPT
              !.d_petsc_ksp = [ksp |-> "KSP"],
              !.d_is_initialized = TRUE,
              !.hist.inits = @ + 1]

\* PETScLevelSolver::deallocateSolverState: from Initialized, the
\* specialized part first, then the PETSc objects of the base class; nothing
\* to release otherwise
deallocateSolverState(S) ==
    IF ~S.d_is_initialized THEN S
    ELSE [deallocateSolverStateSpecialized(S) EXCEPT
              !.d_petsc_ksp = NULL,
              !.d_petsc_mat = NULL,
              !.d_petsc_x = NULL,
              !.d_petsc_b = NULL,
              !.d_is_initialized = FALSE,
              !.hist.releases = @ + 1]

\* variant: the destructor never deallocates
Destructor_noDeallocate(S) ==
    [S EXCEPT !.d_data_synch_sched = NULL, !.d_ghost_fill_sched = NULL, !.life = "destroyed"]

\* ~SCPoissonPETScLevelSolver: "if (d_is_initialized) deallocateSolverState()",
\* then the members (the two schedule pointers) are destroyed
Destructor(S) ==
    LET s1 == IF S.d_is_initialized
              THEN [deallocateSolverState(S) EXCEPT !.hist.dtor_deallocated = TRUE]
              ELSE S
    IN [s1 EXCEPT !.d_data_synch_sched = NULL, !.d_ghost_fill_sched = NULL, !.life = "destroyed"]

\* the DOF index data and the vector are there to be used
CanCopy(S, petsc_vec) == petsc_vec # NULL /\ d_dof_index_idx \in S.allocated

copyToPETScVec(S, petsc_vec, idx) ==
    copyToPatchLevelVec(petsc_vec, S.patch_data[idx], S.dof_index_data)

\* variant: the two schedules are not executed
copyFromPETScVec_noSched(S, petsc_vec, idx) ==
    IF ~CanCopy(S, petsc_vec) THEN Crashed(S)
    ELSE Log([S EXCEPT !.patch_data[idx] =
                 [s \in DOMAIN S.patch_data[idx] |->
                     IF s \in DOMAIN S.dof_index_data /\ S.dof_index_data[s].owned
                     THEN petsc_vec.vals[S.dof_index_data[s].index]
                     ELSE S.patch_data[idx][s]]],
             "copy_from_petsc_vec")

copyFromPETScVec(S, petsc_vec, idx) ==
    IF ~CanCopy(S, petsc_vec) \/ S.d_data_synch_sched = NULL \/ S.d_ghost_fill_sched = NULL
    THEN Crashed(S)
    ELSE Log(Log(Log([S EXCEPT !.patch_data =
                         copyFromPatchLevelVec(petsc_vec, S.patch_data, idx, S.dof_index_data,
                                               S.d_data_synch_sched, S.d_ghost_fill_sched)],
                     "copy_from_petsc_vec"),
                 "execute_data_synch_sched"),
             "execute_ghost_fill_sched")

\* the loop over the patches of setupKSPVecs: b_adj is a copy of b, adjusted
\* on the patches that touch the physical boundary
RECURSIVE AdjustedCopy(_, _, _)
AdjustedCopy(S, data, p) ==
    IF p > Len(S.level) THEN data
    ELSE AdjustedCopy(S,
                      IF intersectsPhysicalBoundary(S.level, p)
                      THEN adjustSCBoundaryRhsEntries(S.level, p, data, S.d_bc_coefs)
                      ELSE data,
                      p + 1)

\* variant: the boundary adjustment is applied to b itself
setupKSPVecs_inPlace(S) ==
    IF ~CanCopy(S, S.d_petsc_x) \/ ~CanCopy(S, S.d_petsc_b) THEN Crashed(S)
    ELSE LET s1 == IF ~S.d_initial_guess_nonzero
                   THEN [S EXCEPT !.d_petsc_x = copyToPETScVec(S, S.d_petsc_x, x_idx)]
                   ELSE S
             adj == AdjustedCopy(s1, s1.patch_data[b_idx], 1)
         IN Log([s1 EXCEPT !.patch_data[b_idx] = adj,
                           !.d_petsc_b = copyToPatchLevelVec(s1.d_petsc_b, adj, s1.dof_index_data)],
                "copy_to_petsc_vec")

\* variant: x is copied into petsc_x whatever the initial guess flag is
setupKSPVecs_alwaysCopyX(S) ==
    IF ~CanCopy(S, S.d_petsc_x) \/ ~CanCopy(S, S.d_petsc_b) THEN Crashed(S)
    ELSE LET s1 == [S EXCEPT !.d_petsc_x = copyToPETScVec(S, S.d_petsc_x, x_idx)]
             b_adj == AdjustedCopy(s1, s1.patch_data[b_idx], 1)
         IN Log([s1 EXCEPT !.d_petsc_b = copyToPatchLevelVec(s1.d_petsc_b, b_adj, s1.dof_index_data)],
                "copy_to_petsc_vec")

setupKSPVecs(S) ==
    IF ~CanCopy(S, S.d_petsc_x) \/ ~CanCopy(S, S.d_petsc_b) THEN Crashed(S)
    ELSE LET s1 == IF ~S.d_initial_guess_nonzero
                   THEN [S EXCEPT !.d_petsc_x = copyToPETScVec(S, S.d_petsc_x, x_idx)]
                   ELSE S
             \* registerClonedPatchDataIndex, allocatePatchData
             b_adj_idx == FreshIndex(s1.registered)
             s2 == [s1 EXCEPT !.registered = @ \cup {b_adj_idx},
                              !.allocated = @ \cup {b_adj_idx},
                              !.patch_data = @ @@ (b_adj_idx :> [s \in DOMAIN s1.patch_data[b_idx] |-> 0])]
             \* b_adj_data->copy(*b_data), adjustSCBoundaryRhsEntries
             s3 == [s2 EXCEPT !.patch_data[b_adj_idx] = AdjustedCopy(s2, s2.patch_data[b_idx], 1)]
             s4 == [s3 EXCEPT !.d_petsc_b =
                        copyToPatchLevelVec(s3.d_petsc_b, s3.patch_data[b_adj_idx], s3.dof_index_data)]
         \* deallocatePatchData, removePatchDataIndex
         IN Log([s4 EXCEPT !.allocated = @ \ {b_adj_idx},
                           !.registered = @ \ {b_adj_idx},
                           !.patch_data = [i \in (DOMAIN @) \ {b_adj_idx} |-> @[i]]],
                "copy_to_petsc_vec")

\* ------------------------------------------------------------------------
\* State
\* ------------------------------------------------------------------------
VARIABLES
    \* one call of calculateOverlap in each direction between two patches
    ov_pc,               \* "call" before the two calls, "done" after them; "stencil" when
                         \* the forward call has its baseline and has yet to restrict it
    dst_box,             \* box of the first patch (destination of the forward call)
    src_box,             \* box of the second patch (source of the forward call)
    ghosts,              \* ghost cell width of the variable on both patches
    src_mask,            \* src_mask of the forward call
    rev_mask,            \* src_mask of the reverse call
    overwrite_interior,
    src_offset,          \* src_offset of the forward call
    box_geom_overlap,    \* the baseline at hand when the forward call starts at "stencil"
    overlap_fwd,         \* calculateOverlap(dst = first, src = second)
    overlap_rev,         \* calculateOverlap(dst = second, src = first)
    \* the patch level, the variable database and the patch data
    level,               \* the patches of d_hierarchy->getPatchLevel(d_level_num)
    gcw,                 \* ghost cell width of the variables of x and b
    registered,          \* patch data indices registered with the VariableDatabase
    allocated,           \* patch data indices allocated on the level
    patch_data,          \* values of the allocated side-centred double data
    dof_index_data,      \* the DOF Index Field, << >> while not allocated
    \* members of the solver
    d_bc_coefs,          \* boundary contribution given by the boundary conditions
    d_is_initialized,
    d_data_synch_sched,
    d_ghost_fill_sched,
    d_num_dofs_per_proc,
    d_petsc_x,
    d_petsc_b,
    d_petsc_mat,
    d_petsc_ksp,
    d_initial_guess_nonzero,
    life,                \* "alive", "destroyed", "rejected" or "crashed"
    solve_pc,            \* position inside solveSystem: "idle", "setup", "solved"
    hist,                \* counters of allocations, releases and schedule builds, and
                         \* the order of the steps since the last initialization began
    \* a copy-in followed by a copy-out
    rt_pc,               \* "off", "start", "written", "copied", "clobbered", "restored"
    rt_orig              \* the field before the copy-in

ovVars == << ov_pc, dst_box, src_box, ghosts, src_mask, rev_mask,
             overwrite_interior, src_offset, box_geom_overlap, overlap_fwd, overlap_rev >>

solverVars == << level, gcw, registered, allocated, patch_data, dof_index_data, d_bc_coefs,
                 d_is_initialized, d_data_synch_sched, d_ghost_fill_sched, d_num_dofs_per_proc,
                 d_petsc_x, d_petsc_b, d_petsc_mat, d_petsc_ksp, d_initial_guess_nonzero,
                 life, solve_pc, hist >>

rtVars == << rt_pc, rt_orig >>

vars == << ovVars, solverVars, rtVars >>

\* the solver state as one record, and its assignment to the next state
Cur ==
    [level |-> level, gcw |-> gcw, registered |-> registered, allocated |-> allocated,
     patch_data |-> patch_data, dof_index_data |-> dof_index_data, d_bc_coefs |-> d_bc_coefs,
     d_is_initialized |-> d_is_initialized, d_data_synch_sched |-> d_data_synch_sched,
     d_ghost_fill_sched |-> d_ghost_fill_sched, d_num_dofs_per_proc |-> d_num_dofs_per_proc,
     d_petsc_x |-> d_petsc_x, d_petsc_b |-> d_petsc_b, d_petsc_mat |-> d_petsc_mat,
     d_petsc_ksp |-> d_petsc_ksp, d_initial_guess_nonzero |-> d_initial_guess_nonzero,
     life |-> life, solve_pc |-> solve_pc, hist |-> hist]

Commit(S) ==
    /\ level' = S.level
    /\ gcw' = S.gcw
    /\ registered' = S.registered
    /\ allocated' = S.allocated
    /\ patch_data' = S.patch_data
    /\ dof_index_data' = S.dof_index_data
    /\ d_bc_coefs' = S.d_bc_coefs
    /\ d_is_initialized' = S.d_is_initialized
    /\ d_data_synch_sched' = S.d_data_synch_sched
    /\ d_ghost_fill_sched' = S.d_ghost_fill_sched
    /\ d_num_dofs_per_proc' = S.d_num_dofs_per_proc
    /\ d_petsc_x' = S.d_petsc_x
    /\ d_petsc_b' = S.d_petsc_b
    /\ d_petsc_mat' = S.d_petsc_mat
    /\ d_petsc_ksp' = S.d_petsc_ksp
    /\ d_initial_guess_nonzero' = S.d_initial_guess_nonzero
    /\ life' = S.life
    /\ solve_pc' = S.solve_pc
    /\ hist' = S.hist

\* ------------------------------------------------------------------------
\* Inputs of the overlap calls
\* ------------------------------------------------------------------------
Intervals(n) == { <<l, h>> \in (0..n) \X (0..n) : l <= h }

\* the non-empty boxes with cells in (0..MaxCoord) x (0..MaxCoord)
PatchBoxes ==
    { MkBox(<<ix[1], iy[1]>>, <<ix[2], iy[2]>>) : ix \in Intervals(MaxCoord), iy \in Intervals(MaxCoord) }

\* no shift, or a shift by MaxShift cells either way, on each axis
Shifts == {0 - MaxShift, 0, MaxShift}

Offsets == { <<i, j>> : i \in Shifts, j \in Shifts }

\* no ghost cells, or MaxGhost ghost cells
GhostWidths == {0, MaxGhost}

MaskKinds == {"src", "src_ghost", "dst_ghost"}

\* the masks a caller passes: the source patch box, the source ghost box
\* (no restriction), or the destination ghost box shifted back to the source
MaskOf(kind, dst, src, g, off) ==
    CASE kind = "src"       -> src
      [] kind = "src_ghost" -> BoxGrow(src, g)
      [] kind = "dst_ghost" -> BoxShift(BoxGrow(dst, g), NegOffset(off))

NoOverlap == SideOverlap([d \in Axes |-> <<>>], ZeroOffset, FALSE)

\* the solver part at rest, for the specification of the overlap calls
IdleSolver ==
    /\ level = << >>
    /\ gcw = 0
    /\ registered = {}
    /\ allocated = {}
    /\ patch_data = << >>
    /\ dof_index_data = << >>
    /\ d_bc_coefs = 0
    /\ d_is_initialized = FALSE
    /\ d_data_synch_sched = NULL
    /\ d_ghost_fill_sched = NULL
    /\ d_num_dofs_per_proc = << >>
    /\ d_petsc_x = NULL
    /\ d_petsc_b = NULL
    /\ d_petsc_mat = NULL
    /\ d_petsc_ksp = NULL
    /\ d_initial_guess_nonzero = FALSE
    /\ life = "idle"
    /\ solve_pc = "idle"
    /\ hist = << >>

IdleRoundTrip ==
    /\ rt_pc = "off"
    /\ rt_orig = << >>

InitOverlap ==
    /\ ov_pc = "call"
    /\ dst_box \in PatchBoxes
    /\ src_box \in PatchBoxes
    /\ ghosts \in GhostWidths
    /\ overwrite_interior \in BOOLEAN
    /\ src_offset \in Offsets
    /\ \E kind \in MaskKinds :
          /\ src_mask = MaskOf(kind, dst_box, src_box, ghosts, src_offset)
          /\ rev_mask = MaskOf(kind, src_box, dst_box, ghosts, NegOffset(src_offset))
    /\ box_geom_overlap = NoOverlap
    /\ overlap_fwd = NoOverlap
    /\ overlap_rev = NoOverlap
    /\ IdleSolver
    /\ IdleRoundTrip

\* the overlap part at rest, for the specifications that do not use it
IdleOverlap ==
    /\ ov_pc = "idle"
    /\ dst_box = EmptyBox
    /\ src_box = EmptyBox
    /\ ghosts = 0
    /\ overwrite_interior = TRUE
    /\ src_offset = ZeroOffset
    /\ src_mask = EmptyBox
    /\ rev_mask = EmptyBox
    /\ box_geom_overlap = NoOverlap
    /\ overlap_fwd = NoOverlap
    /\ overlap_rev = NoOverlap

\* the schedule asks the fill pattern for the overlap of the two patches,
\* once with each of them as the destination
CalculateOverlaps ==
    /\ ov_pc = "call"
    /\ ov_pc' = "done"
    /\ overlap_fwd' = calculateOverlap(SideGeometry(dst_box, ghosts), SideGeometry(src_box, ghosts),
                                       src_mask, overwrite_interior, src_offset)
    /\ overlap_rev' = calculateOverlap(SideGeometry(src_box, ghosts), SideGeometry(dst_box, ghosts),
                                       rev_mask, overwrite_interior, NegOffset(src_offset))
    /\ UNCHANGED << dst_box, src_box, ghosts, src_mask, rev_mask, overwrite_interior, src_offset,
                    box_geom_overlap >>
    /\ UNCHANGED << solverVars, rtVars >>

NextOverlap == CalculateOverlaps

SpecOverlap == InitOverlap /\ [][NextOverlap]_vars

\* ------------------------------------------------------------------------
\* The restriction to the stencil box, for any baseline the generic routine
\* may hand back
\* ------------------------------------------------------------------------
MaxBoxes == 2

\* the destination patch: two cells along axis 1, one along axis 2
PatternBox == MkBox(<<0, 0>>, <<1, 0>>)

IntervalsIn(l, h) == { <<i, j>> \in (l..h) \X (l..h) : i <= j }

\* the non-empty boxes inside w
SubBoxes(w) ==
    { MkBox(<<ix[1], iy[1]>>, <<ix[2], iy[2]>>) :
        ix \in IntervalsIn(w.lo[1], w.hi[1]), iy \in IntervalsIn(w.lo[2], w.hi[2]) }

\* the two topmost face layers of the side box of dst on the axis
Window(dst, axis) ==
    LET side == toSideBox(dst, axis)
    IN MkBox([side.lo EXCEPT ![axis] = side.hi[axis] - 1], side.hi)

\* the box lists of at most MaxBoxes boxes
BoxLists(boxes) == UNION { [1..k -> boxes] : k \in 0..MaxBoxes }

InitPattern ==
    /\ ov_pc = "stencil"
    /\ dst_box = PatternBox
    /\ src_box = EmptyBox
    /\ ghosts = 0
    /\ overwrite_interior = TRUE
    /\ src_offset \in Offsets
    /\ src_mask = EmptyBox
    /\ rev_mask = EmptyBox
    /\ \E l1 \in BoxLists(SubBoxes(Window(PatternBox, 1))),
          l2 \in BoxLists(SubBoxes(Window(PatternBox, 2))) :
            box_geom_overlap = SideOverlap(<<l1, l2>>, src_offset, TRUE)
    /\ overlap_fwd = NoOverlap
    /\ overlap_rev = NoOverlap
    /\ IdleSolver
    /\ IdleRoundTrip

\* lines 59-92 of calculateOverlap on the baseline at hand
RestrictToStencil ==
    /\ ov_pc = "stencil"
    /\ ov_pc' = "done"
    /\ overlap_fwd' = stencilOverlap(box_geom_overlap, SideGeometry(dst_box, ghosts), src_offset)
    /\ UNCHANGED << dst_box, src_box, ghosts, src_mask, rev_mask, overwrite_interior, src_offset,
                    box_geom_overlap, overlap_rev >>
    /\ UNCHANGED << solverVars, rtVars >>

NextPattern == RestrictToStencil

SpecPattern == InitPattern /\ [][NextPattern]_vars

\* ------------------------------------------------------------------------
\* Life cycle of the level solver
\* ------------------------------------------------------------------------
MaxBc == 1

\* fields given by position, so that the two copies of a shared face agree
ByPosition(lev, g) == [s \in AllSlots(lev, g) |-> (s[2] + s[3][1] + s[3][2]) % 2]

ConstantField(lev, g, v) == [s \in AllSlots(lev, g) |-> v]

\* the state after construction: x and b are allocated by the caller, the
\* DOF index variable is registered but not allocated
InitSolverWith(lev, g, x_data, b_data) ==
    /\ level = lev
    /\ gcw = g
    /\ registered = {x_idx, b_idx, d_dof_index_idx}
    /\ allocated = {x_idx, b_idx}
    /\ patch_data = (x_idx :> x_data) @@ (b_idx :> b_data)
    /\ dof_index_data = << >>
    /\ d_bc_coefs \in {0, MaxBc}
    /\ d_is_initialized = FALSE
    /\ d_data_synch_sched = NULL
    /\ d_ghost_fill_sched = NULL
    /\ d_num_dofs_per_proc = [r \in Procs |-> 0]
    /\ d_petsc_x = NULL
    /\ d_petsc_b = NULL
    /\ d_petsc_mat = NULL
    /\ d_petsc_ksp = NULL
    /\ d_initial_guess_nonzero = TRUE
    /\ life = "alive"
    /\ solve_pc = "idle"
    /\ hist = [inits |-> 0, releases |-> 0, dof_allocs |-> 0, dof_deallocs |-> 0, sched_builds |-> 0,
               solved |-> FALSE, dtor_deallocated |-> FALSE, events |-> << >>]

Init ==
    /\ IdleOverlap
    /\ IdleRoundTrip
    /\ \E lev \in Levels, g \in GhostWidths :
         \E x_data \in {ByPosition(lev, g), ConstantField(lev, g, 0)},
            b_data \in {ByPosition(lev, g), ConstantField(lev, g, 1)} :
             InitSolverWith(lev, g, x_data, b_data)

Ready == life = "alive" /\ solve_pc = "idle"

\* initializeSolverState(x, b)
Initialize ==
    /\ Ready
    /\ d_is_initialized \/ hist.inits < MaxInits
    /\ Commit(initializeSolverState(Cur))
    /\ UNCHANGED << ovVars, rtVars >>

\* deallocateSolverState()
Deallocate ==
    /\ Ready
    /\ Commit(deallocateSolverState(Cur))
    /\ UNCHANGED << ovVars, rtVars >>

\* solveSystem(x, b), first part: valid only in Initialized, then copy-in
SolveSetup ==
    /\ Ready
    /\ IF ~d_is_initialized
       THEN Commit(Rejected(Cur))
       ELSE Commit([setupKSPVecs(Cur) EXCEPT !.solve_pc = "setup"])
    /\ UNCHANGED << ovVars, rtVars >>

\* the results the external solver may leave in petsc_x
KSPOutcomes(petsc_x, petsc_b) ==
    { petsc_b.vals, [i \in DOMAIN petsc_x.vals |-> 0], [i \in DOMAIN petsc_x.vals |-> 1] }

\* solveSystem(x, b), second part: KSPSolve
SolveKSP ==
    /\ life = "alive" /\ solve_pc = "setup"
    /\ \E sol \in KSPOutcomes(d_petsc_x, d_petsc_b) :
          Commit([Cur EXCEPT !.d_petsc_x.vals = sol, !.solve_pc = "solved"])
    /\ UNCHANGED << ovVars, rtVars >>

\* solveSystem(x, b), last part: copy-out
SolveCopyOut ==
    /\ life = "alive" /\ solve_pc = "solved"
    /\ Commit([copyFromPETScVec(Cur, d_petsc_x, x_idx) EXCEPT !.solve_pc = "idle", !.hist.solved = TRUE])
    /\ UNCHANGED << ovVars, rtVars >>

\* setInitialGuessNonzero
SetInitialGuessNonzero ==
    /\ Ready
    /\ Commit([Cur EXCEPT !.d_initial_guess_nonzero = ~@])
    /\ UNCHANGED << ovVars, rtVars >>

\* the solver goes out of scope
Destroy ==
    /\ Ready
    /\ Commit(Destructor(Cur))
    /\ UNCHANGED << ovVars, rtVars >>

Next ==
    \/ Initialize
    \/ Deallocate
    \/ SolveSetup
    \/ SolveKSP
    \/ SolveCopyOut
    \/ SetInitialGuessNonzero
    \/ Destroy

Spec == Init /\ [][Next]_vars

\* ------------------------------------------------------------------------
\* A copy-in followed by a copy-out of the same field
\* ------------------------------------------------------------------------

\* every assignment of values to the interior positions, ghost values zero
InteriorFields(lev, g) ==
    { [s \in AllSlots(lev, g) |-> IF s \in InteriorSlots(lev) THEN f[s] ELSE 0] :
        f \in [InteriorSlots(lev) -> Values] }

InitRoundTrip ==
    /\ IdleOverlap
    /\ \E lev \in Levels, g \in GhostWidths :
          InitSolverWith(lev, g, ConstantField(lev, g, 0), ConstantField(lev, g, 1))
    /\ d_bc_coefs = 0
    /\ rt_pc = "start"
    /\ rt_orig = << >>

\* the caller fills the interior of x
RT_WriteField ==
    /\ Ready /\ d_is_initialized /\ rt_pc = "start"
    /\ \E x_data \in InteriorFields(level, gcw) :
          /\ Commit([Cur EXCEPT !.patch_data[x_idx] = x_data])
          /\ rt_orig' = x_data
    /\ rt_pc' = "written"
    /\ UNCHANGED ovVars

\* copyToPETScVec(d_petsc_x, x, level)
RT_CopyTo ==
    /\ Ready /\ d_is_initialized /\ rt_pc = "written"
    /\ Commit(Log([Cur EXCEPT !.d_petsc_x = copyToPETScVec(Cur, d_petsc_x, x_idx)],
                  "copy_to_petsc_vec"))
    /\ rt_pc' = "copied"
    /\ UNCHANGED << ovVars, rt_orig >>

\* the caller overwrites the whole storage of x
RT_Clobber ==
    /\ Ready /\ rt_pc = "copied"
    /\ \E v \in Values : Commit([Cur EXCEPT !.patch_data[x_idx] = ConstantField(level, gcw, v)])
    /\ rt_pc' = "clobbered"
    /\ UNCHANGED << ovVars, rt_orig >>

\* copyFromPETScVec(d_petsc_x, x, level)
RT_CopyFrom ==
    /\ Ready /\ rt_pc \in {"copied", "clobbered"}
    /\ Commit(copyFromPETScVec(Cur, d_petsc_x, x_idx))
    /\ rt_pc' = "restored"
    /\ UNCHANGED << ovVars, rt_orig >>

\* initializeSolverState(x, b) before the copies
RT_Initialize == rt_pc = "start" /\ ~d_is_initialized /\ Initialize

NextRoundTrip ==
    \/ RT_Initialize
    \/ RT_WriteField
    \/ RT_CopyTo
    \/ RT_Clobber
    \/ RT_CopyFrom

SpecRoundTrip == InitRoundTrip /\ [][NextRoundTrip]_vars

\* ------------------------------------------------------------------------
\* The specialized initialize and deallocate called directly, in any order
\* ------------------------------------------------------------------------
MaxCalls == 3

\* initializeSolverStateSpecialized(x, b)
CallInitializeSpecialized ==
    /\ life = "alive"
    /\ hist.sched_builds < 2 * MaxCalls
    /\ Commit(initializeSolverStateSpecialized(Cur))
    /\ UNCHANGED << ovVars, rtVars >>

\* deallocateSolverStateSpecialized()
CallDeallocateSpecialized ==
    /\ life = "alive"
    /\ Commit(deallocateSolverStateSpecialized(Cur))
    /\ UNCHANGED << ovVars, rtVars >>

NextSpecialized ==
    \/ CallInitializeSpecialized
    \/ CallDeallocateSpecialized

SpecSpecialized == Init /\ [][NextSpecialized]_vars

\* ------------------------------------------------------------------------
\* Properties of the life cycle
\* ------------------------------------------------------------------------
DOFIndexAllocated == d_dof_index_idx \in allocated

SchedulesHeld == d_data_synch_sched # NULL /\ d_ghost_fill_sched # NULL

SchedulesReleased == d_data_synch_sched = NULL /\ d_ghost_fill_sched = NULL

PETScReleased == d_petsc_x = NULL /\ d_petsc_b = NULL /\ d_petsc_mat = NULL

C5_NoReinitialize ==
    [][ /\ hist.inits' # hist.inits => (~d_is_initialized /\ d_is_initialized')
        /\ (d_is_initialized /\ life = "alive" /\ life' = "rejected") =>
              /\ d_is_initialized'
              /\ allocated' = allocated /\ dof_index_data' = dof_index_data
              /\ d_petsc_x' = d_petsc_x /\ d_petsc_b' = d_petsc_b /\ d_petsc_mat' = d_petsc_mat
              /\ d_data_synch_sched' = d_data_synch_sched
              /\ d_ghost_fill_sched' = d_ghost_fill_sched
              /\ hist' = hist
        /\ (d_is_initialized /\ d_is_initialized') =>
              /\ hist.dof_allocs' = hist.dof_allocs
              /\ hist.sched_builds' = hist.sched_builds
              /\ d_petsc_mat' = d_petsc_mat
      ]_vars

\* initialize was called on an Initialized solver and was rejected
C5_Witness == life = "rejected" /\ d_is_initialized /\ hist.inits = 1 /\ SchedulesHeld

\* C6 as stated: once deallocate has run from Initialized, the DOF index
\* data is not allocated, the vectors and the matrix are released, both
\* schedules are released and the solver is Uninitialized
C6_DeallocateReleasesAll ==
    (life = "alive" /\ hist.releases > 0 /\ ~d_is_initialized) =>
        (~DOFIndexAllocated /\ PETScReleased /\ SchedulesReleased)

\* C7: the destructor deallocates exactly when the solver is Initialized, and
\* after destruction everything is released, each initialization once
C7_DestructorReleases ==
    /\ [](life = "destroyed" =>
            /\ ~d_is_initialized /\ ~DOFIndexAllocated /\ PETScReleased /\ SchedulesReleased
            /\ hist.releases = hist.inits
            /\ hist.dof_deallocs = hist.dof_allocs)
    /\ [][(life = "alive" /\ life' = "destroyed") =>
             /\ hist.dtor_deallocated' = d_is_initialized
             /\ hist.releases' = hist.releases + (IF d_is_initialized THEN 1 ELSE 0)]_vars

\* the destructor found the solver Initialized after a solve and released it
C7_Witness ==
    life = "destroyed" /\ hist.dtor_deallocated /\ hist.solved /\ hist.releases = hist.inits

\* the value setupKSPVecs puts into petsc_b for an owned position of b
AdjustedValue(s) ==
    patch_data[b_idx][s]
    + (IF intersectsPhysicalBoundary(level, s[1]) /\ OnPhysicalBoundary(level, s) THEN d_bc_coefs ELSE 0)

\* C8: the copy-in of a solve leaves b and the sets of registered and
\* allocated patch data indices as they were, and petsc_b holds the
\* boundary-adjusted values of b
C8_RhsSetupFrame ==
    [][(solve_pc = "idle" /\ solve_pc' = "setup") =>
          /\ patch_data'[b_idx] = patch_data[b_idx]
          /\ registered' = registered
          /\ allocated' = allocated
          /\ DOMAIN patch_data' = DOMAIN patch_data
          /\ \A s \in DOMAIN dof_index_data :
                dof_index_data[s].owned => d_petsc_b'.vals[dof_index_data[s].index] = AdjustedValue(s)
      ]_vars

\* a copy-in has run whose adjusted right-hand side differs from b
C8_Witness ==
    /\ solve_pc = "setup" /\ d_bc_coefs > 0
    /\ \E s \in DOMAIN dof_index_data :
          dof_index_data[s].owned /\ d_petsc_b.vals[dof_index_data[s].index] # patch_data[b_idx][s]
    /\ registered = {x_idx, b_idx, d_dof_index_idx}

\* ------------------------------------------------------------------------
\* Properties of the order of the steps
\* ------------------------------------------------------------------------
Happened(e) == \E i \in 1..Len(hist.events) : hist.events[i] = e

PosOf(e) == CHOOSE i \in 1..Len(hist.events) : hist.events[i] = e

\* e2 has not completed unless e1 completed before it
Precedes(e1, e2) == Happened(e2) => (Happened(e1) /\ PosOf(e1) < PosOf(e2))

BuildSteps ==
    {"create_petsc_x", "create_petsc_b", "construct_mat",
     "construct_data_synch_sched", "construct_ghost_fill_sched"}

CopySteps == {"copy_to_petsc_vec", "copy_from_petsc_vec"}

\* C11: the DOF index data is allocated and then numbered before the
\* vectors, the matrix and either schedule are built, and both schedules are
\* built before any copy-in or copy-out uses the DOF index data
C11_DOFThenSchedulesThenCopies ==
    /\ Precedes("allocate_dof_index", "construct_dof_indices")
    /\ \A e \in BuildSteps : Precedes("construct_dof_indices", e)
    /\ \A e \in CopySteps :
          /\ Precedes("construct_data_synch_sched", e)
          /\ Precedes("construct_ghost_fill_sched", e)
    /\ d_is_initialized => \A e \in BuildSteps : Happened(e)
    /\ solve_pc # "idle" => Happened("copy_to_petsc_vec")
    /\ hist.solved => hist.inits > 0

\* the second initialization has been followed by a copy-in and a copy-out
C11_Witness ==
    /\ life = "alive" /\ hist.inits = 2 /\ d_is_initialized
    /\ Happened("copy_from_petsc_vec")
    /\ Len(hist.events) >= 9

ScheduleExecuted == Happened("execute_data_synch_sched") \/ Happened("execute_ghost_fill_sched")

\* C12: an initialization builds each schedule once and moves no field data;
\* the schedules stay the same objects while the solver is Initialized; they
\* are executed by the copy-out, and by nothing else
C12_SchedulesBuiltOnceRunInCopyOut ==
    [][ /\ hist.inits' # hist.inits =>
              /\ hist.sched_builds' = hist.sched_builds + 2
              /\ d_data_synch_sched'.serial = hist.sched_builds + 1
              /\ d_ghost_fill_sched'.serial = hist.sched_builds + 2
              /\ patch_data' = patch_data
              /\ ~ScheduleExecuted'
        /\ (d_is_initialized /\ d_is_initialized') =>
              /\ d_data_synch_sched' = d_data_synch_sched
              /\ d_ghost_fill_sched' = d_ghost_fill_sched
              /\ hist.sched_builds' = hist.sched_builds
        /\ (~ScheduleExecuted /\ ScheduleExecuted') => (solve_pc = "solved" /\ solve_pc' = "idle")
        /\ (solve_pc = "solved" /\ solve_pc' = "idle" /\ life' = "alive") =>
              (Happened("execute_data_synch_sched")' /\ Happened("execute_ghost_fill_sched")')
        /\ (solve_pc = "idle" /\ solve_pc' = "setup") =>
              /\ ScheduleExecuted' = ScheduleExecuted
              /\ patch_data'[x_idx] = patch_data[x_idx]
      ]_vars

\* a second solve is under way with the schedules of the first
C12_Witness ==
    /\ d_is_initialized /\ solve_pc = "setup"
    /\ Happened("execute_data_synch_sched") /\ Happened("execute_ghost_fill_sched")
    /\ d_data_synch_sched.serial = 1 /\ d_ghost_fill_sched.serial = 2
    /\ hist.sched_builds = 2

\* C15: the copy-in of a solve copies b (adjusted at the boundary) into
\* petsc_b every time; it copies x into petsc_x when the initial guess flag
\* is false, and leaves petsc_x as it was when the flag is true
C15_InitialGuessCopy ==
    [][(solve_pc = "idle" /\ solve_pc' = "setup") =>
          /\ \A s \in DOMAIN dof_index_data :
                dof_index_data[s].owned => d_petsc_b'.vals[dof_index_data[s].index] = AdjustedValue(s)
          /\ ~d_initial_guess_nonzero =>
                \A s \in DOMAIN dof_index_data :
                    dof_index_data[s].owned =>
                        d_petsc_x'.vals[dof_index_data[s].index] = patch_data[x_idx][s]
          /\ d_initial_guess_nonzero => d_petsc_x' = d_petsc_x
      ]_vars

\* the flag is true and the copy-in has left in petsc_x values that differ
\* from those of x, while petsc_b holds those of b
C15_Witness ==
    /\ solve_pc = "setup" /\ d_initial_guess_nonzero /\ d_bc_coefs = 0
    /\ \E s \in DOMAIN dof_index_data :
          dof_index_data[s].owned /\ d_petsc_x.vals[dof_index_data[s].index] # patch_data[x_idx][s]
    /\ \E s \in DOMAIN dof_index_data :
          dof_index_data[s].owned /\ d_petsc_b.vals[dof_index_data[s].index] = 1
    /\ \A s \in DOMAIN dof_index_data :
          dof_index_data[s].owned => d_petsc_b.vals[dof_index_data[s].index] = patch_data[b_idx][s]

LastStep == IF hist.events = << >> THEN "none" ELSE hist.events[Len(hist.events)]

\* C16: over any sequence of calls of the two specialized functions, the DOF
\* index data is allocated only while it is not allocated and deallocated
\* only while it is allocated, it is allocated after every initialize and
\* not allocated after every deallocate
C16_AllocateOnlyWhenUnallocated ==
    /\ [](LastStep = "construct_ghost_fill_sched" => DOFIndexAllocated)
    /\ [](LastStep = "deallocate_dof_index" => ~DOFIndexAllocated)
    /\ [](hist.dof_allocs - hist.dof_deallocs = (IF DOFIndexAllocated THEN 1 ELSE 0))
    /\ [][ /\ hist.dof_allocs' # hist.dof_allocs =>
                 (hist.dof_allocs' = hist.dof_allocs + 1 /\ ~DOFIndexAllocated /\ DOFIndexAllocated')
           /\ hist.dof_deallocs' # hist.dof_deallocs =>
                 (hist.dof_deallocs' = hist.dof_deallocs + 1 /\ DOFIndexAllocated /\ ~DOFIndexAllocated')
           /\ DOFIndexAllocated' # DOFIndexAllocated =>
                 (hist.dof_allocs' # hist.dof_allocs \/ hist.dof_deallocs' # hist.dof_deallocs)
         ]_vars

\* three initializes, one of them on data that was still allocated, and two
\* deallocates that found the data allocated
C16_Witness ==
    /\ ~d_is_initialized /\ hist.inits = 0
    /\ hist.sched_builds = 6 /\ hist.dof_allocs = 2 /\ hist.dof_deallocs = 2
    /\ ~DOFIndexAllocated /\ LastStep = "deallocate_dof_index"

\* ------------------------------------------------------------------------
\* Properties of the DOF numbering and of the copies
\* ------------------------------------------------------------------------
OwnedSlots == { s \in DOMAIN dof_index_data : dof_index_data[s].owned }

OwnedOf(r) == { s \in OwnedSlots : level[s[1]].proc = r }

TotalDOFs == SumUpTo(d_num_dofs_per_proc, NumProcs)

\* two patches store the same side position
SharedFace(s, t) == s[1] # t[1] /\ s[2] = t[2] /\ s[3] = t[3]

\* C9: the owned indices are exactly 0..totalDOFs-1 without duplicate, the
\* indices of each process are the block that follows those of the lower
\* ranks and has the size of its perProcessCounts entry, which is the local
\* size of the vectors, and a shared face has one index, owned on one side
C9_ContiguousDOFs ==
    d_is_initialized =>
        /\ { dof_index_data[s].index : s \in OwnedSlots } = 0..(TotalDOFs - 1)
        /\ \A s, t \in OwnedSlots : dof_index_data[s].index = dof_index_data[t].index => s = t
        /\ \A r \in Procs :
              /\ { dof_index_data[s].index : s \in OwnedOf(r) }
                    = SumUpTo(d_num_dofs_per_proc, r - 1)..(SumUpTo(d_num_dofs_per_proc, r) - 1)
              /\ d_petsc_x.local[r] = d_num_dofs_per_proc[r]
              /\ d_petsc_b.local[r] = d_num_dofs_per_proc[r]
        /\ DOMAIN d_petsc_x.vals = 0..(TotalDOFs - 1)
        /\ \A s, t \in DOMAIN dof_index_data :
              SharedFace(s, t) =>
                  /\ dof_index_data[s].owned # dof_index_data[t].owned
                  /\ dof_index_data[s].index = dof_index_data[t].index

\* a level on two processes with different counts and a shared face
C9_Witness ==
    /\ d_is_initialized
    /\ d_num_dofs_per_proc[1] # d_num_dofs_per_proc[2]
    /\ d_num_dofs_per_proc[1] > 0 /\ d_num_dofs_per_proc[2] > 0
    /\ \E s, t \in DOMAIN dof_index_data : SharedFace(s, t)

\* the duplicates of a field hold the value of their owner
DuplicatesAgree(data) ==
    \A s \in InteriorSlots(level) : IsDuplicate(level, s) => data[s] = data[OwnerSlot(level, s)]

\* C10: copy-in followed by copy-out gives back the value of every owned and
\* every duplicate position of a field whose duplicates agreed
C10_RoundTrip ==
    (rt_pc = "restored" /\ life = "alive" /\ DuplicatesAgree(rt_orig)) =>
        \A s \in InteriorSlots(level) : patch_data[x_idx][s] = rt_orig[s]

\* the storage was overwritten in between with values that differ from the
\* original at a duplicate position, and the copy-out brought them back
C10_Witness ==
    /\ rt_pc = "restored" /\ life = "alive" /\ DuplicatesAgree(rt_orig)
    /\ \E s \in InteriorSlots(level) : IsDuplicate(level, s) /\ rt_orig[s] = 1
    /\ \E s \in InteriorSlots(level) : ~IsDuplicate(level, s) /\ rt_orig[s] = 0
    /\ \A s \in InteriorSlots(level) : patch_data[x_idx][s] = rt_orig[s]
    /\ gcw > 0
    /\ \E s \in AllSlots(level, gcw) \ InteriorSlots(level) : patch_data[x_idx][s] = 1

\* ------------------------------------------------------------------------
\* Properties of calculateOverlap
\* ------------------------------------------------------------------------

\* A lies directly below B on axis a and the two share a face of B's lower side
Below(A, B, a) ==
    /\ A.hi[a] + 1 = B.lo[a]
    /\ \A d \in Axes : d # a => (A.lo[d] <= B.hi[d] /\ B.lo[d] <= A.hi[d])

\* the two Regions abut on axis a
Abutting(A, B, a) == Below(A, B, a) \/ Below(B, A, a)

\* every box of the list lies in the face layer dst.upper(a)+1 of dst
InUpperLayer(list, dst, a) ==
    \A i \in 1..Len(list) :
        /\ ~BoxEmpty(list[i])
        /\ list[i].lo[a] = dst.hi[a] + 1
        /\ list[i].hi[a] = dst.hi[a] + 1

ExactlyOneDirection(a) ==
    LET fwd == getDestinationBoxList(overlap_fwd, a)
        rev == getDestinationBoxList(overlap_rev, a)
    IN /\ (fwd # <<>>) # (rev # <<>>)
       /\ InUpperLayer(fwd, dst_box, a)
       /\ InUpperLayer(rev, src_box, a)

\* C1 as stated: for every abutting pair and zero offset, whatever the mask
\* and the overwrite_interior flag are, exactly one direction yields boxes on
\* the shared axis, in the upper face layer of its destination
C1_AsStated ==
    (ov_pc = "done" /\ src_offset = ZeroOffset) =>
        \A a \in Axes : Abutting(dst_box, src_box, a) => ExactlyOneDirection(a)

\* the calls the refine schedule makes for patch interiors: the mask is the
\* source patch box and interior values may be overwritten
InteriorCall == overwrite_interior /\ src_mask = src_box /\ rev_mask = dst_box

\* C1 (amended): for abutting Regions, zero offset, overwrite_interior true
\* and the source patch box as mask, exactly one of the two directions has a
\* non-empty list on the shared axis, and its boxes lie in the face layer
\* dst_box.upper(a)+1 of its destination
C1_UpperFaceOwner ==
    (ov_pc = "done" /\ src_offset = ZeroOffset /\ InteriorCall) =>
        \A a \in Axes : Abutting(dst_box, src_box, a) => ExactlyOneDirection(a)

C1_Witness ==
    /\ ov_pc = "done" /\ src_offset = ZeroOffset /\ InteriorCall /\ ghosts > 0
    /\ Below(src_box, dst_box, 2)
    /\ getDestinationBoxList(overlap_rev, 2) # <<>>
    /\ getDestinationBoxList(overlap_fwd, 2) = <<>>

\* no face position of the two Regions coincides once the source is shifted
NoSharedFace ==
    \A a \in Axes :
        BoxPoints(toSideBox(dst_box, a)) \cap BoxPoints(toSideBox(BoxShift(src_box, src_offset), a)) = {}

BaselineFwd ==
    baselineOverlap(SideGeometry(dst_box, ghosts), SideGeometry(src_box, ghosts),
                    src_mask, overwrite_interior, src_offset)

\* C2 as stated: disjoint, non-adjacent Regions give a result without boxes,
\* and an empty baseline is returned as it is
C2_AsStated ==
    ov_pc = "done" =>
        /\ NoSharedFace => isOverlapEmpty(overlap_fwd)
        /\ isOverlapEmpty(BaselineFwd) => overlap_fwd = BaselineFwd

\* C2 (amended): the same, provided the mask lies inside the source Region,
\* so that no source ghost cell is a candidate
C2_DisjointEmpty ==
    ov_pc = "done" =>
        /\ (NoSharedFace /\ BoxContains(src_box, src_mask)) => isOverlapEmpty(overlap_fwd)
        /\ isOverlapEmpty(BaselineFwd) => overlap_fwd = BaselineFwd

\* disjoint Regions whose ghost boxes meet: the baseline has boxes, the
\* result has none
C2_Witness ==
    /\ ov_pc = "done" /\ NoSharedFace /\ BoxContains(src_box, src_mask)
    /\ ~isOverlapEmpty(BaselineFwd)
    /\ isOverlapEmpty(overlap_fwd)
    /\ ~overlap_fwd.from_baseline

\* C3: an axis is skipped whenever the offset is nonzero on another axis
C3_CrossAxisSkipped ==
    ov_pc = "done" =>
        \A a \in Axes :
            (\E d \in Axes : d # a /\ src_offset[d] # 0) =>
                getDestinationBoxList(overlap_fwd, a) = <<>>

\* the baseline has boxes in the upper face layer of axis 1, the offset is
\* nonzero on axis 2 only, and the result has nothing on axis 1
C3_Witness ==
    /\ ov_pc = "done"
    /\ src_offset[2] # 0 /\ src_offset[1] = 0
    /\ IntersectList(stencil_box(dst_box, 1), getDestinationBoxList(BaselineFwd, 1)) # <<>>
    /\ getDestinationBoxList(overlap_fwd, 1) = <<>>
    /\ ~overlap_fwd.from_baseline

\* ------------------------------------------------------------------------
\* Properties of the restriction to the stencil box
\* ------------------------------------------------------------------------

\* the side box of the destination on axis a with its lower bound on a set
\* to its upper bound
UpperFaceLayer(a) ==
    MkBox([dst_box.lo EXCEPT ![a] = dst_box.hi[a] + 1], [dst_box.hi EXCEPT ![a] = dst_box.hi[a] + 1])

NotEmptyBox(b) == ~BoxEmpty(b)

\* the non-empty intersections of the layer with the baseline boxes, in order
ExpectedList(a) ==
    LET base == getDestinationBoxList(box_geom_overlap, a)
    IN SelectSeq([i \in 1..Len(base) |-> BoxIntersect(UpperFaceLayer(a), base[i])], NotEmptyBox)

NotSkipped(a) == \A d \in Axes : d # a => src_offset[d] = 0

\* C13: for a non-empty baseline, the list of every axis that is not skipped
\* is the sequence of the non-empty intersections of the upper face layer
\* with the baseline boxes of the axis, in their order; no box of the result
\* is empty and the result carries the offset that was passed in
C13_ExactStencilList ==
    (ov_pc = "done" /\ ~isOverlapEmpty(box_geom_overlap)) =>
        /\ \A a \in Axes : NotSkipped(a) => getDestinationBoxList(overlap_fwd, a) = ExpectedList(a)
        /\ \A a \in Axes : \A i \in 1..Len(getDestinationBoxList(overlap_fwd, a)) :
              ~BoxEmpty(getDestinationBoxList(overlap_fwd, a)[i])
        /\ overlap_fwd.offset = src_offset
        /\ ~overlap_fwd.from_baseline

\* of two baseline boxes on axis 2 the first misses the layer and is
\* dropped and the second is cut down to the layer; axis 1 is skipped
C13_Witness ==
    /\ ov_pc = "done" /\ src_offset[1] = 0 /\ src_offset[2] # 0
    /\ LET base == getDestinationBoxList(box_geom_overlap, 2)
           res == getDestinationBoxList(overlap_fwd, 2)
       IN /\ Len(base) = 2 /\ Len(res) = 1
          /\ BoxEmpty(BoxIntersect(UpperFaceLayer(2), base[1]))
          /\ res[1] = BoxIntersect(UpperFaceLayer(2), base[2])
          /\ res[1] # base[2]
    /\ getDestinationBoxList(box_geom_overlap, 1) # <<>>
    /\ getDestinationBoxList(overlap_fwd, 1) = <<>>

PairwiseDisjoint(l) ==
    \A i, j \in 1..Len(l) : i < j => BoxEmpty(BoxIntersect(l[i], l[j]))

\* C14: on every axis whose baseline boxes are pairwise disjoint, the boxes
\* of the result are pairwise disjoint and cover no position that the
\* baseline boxes do not cover
C14_DisjointSubsetOfBaseline ==
    ov_pc = "done" =>
        \A a \in Axes :
            PairwiseDisjoint(getDestinationBoxList(box_geom_overlap, a)) =>
                /\ PairwiseDisjoint(getDestinationBoxList(overlap_fwd, a))
                /\ ListPoints(getDestinationBoxList(overlap_fwd, a))
                       \subseteq ListPoints(getDestinationBoxList(box_geom_overlap, a))

\* two disjoint baseline boxes both reach the layer: the result has two
\* disjoint boxes that cover less than the baseline
C14_Witness ==
    /\ ov_pc = "done" /\ src_offset = ZeroOffset
    /\ LET base == getDestinationBoxList(box_geom_overlap, 2)
           res == getDestinationBoxList(overlap_fwd, 2)
       IN /\ Len(base) = 2 /\ PairwiseDisjoint(base)
          /\ Len(res) = 2 /\ res[1] # res[2]
          /\ ListPoints(res) # ListPoints(base)
          /\ ListPoints(res) \subseteq ListPoints(base)

====
